---- MODULE Spec2Model ----
(***************************************************************************)
(* Rotating-channel gatekeeper bot (src/bot.py).                           *)
(*                                                                         *)
(* State: the persisted document bot_state.json (file), the number of      *)
(* updates dispatched so far (updates), what the handlers (start,          *)
(* verify_callback) answered, and who is in which channel (joined).        *)
(*                                                                         *)
(* Spec      dispatches one update at a time: a handler runs to its end    *)
(*           before the next update is taken; `last` holds the update and  *)
(*           the replies of the handler that ran last.                     *)
(* SpecConc  dispatches updates concurrently: handlers interleave at their *)
(*           await points (the code holds no lock); `tasks` holds the      *)
(*           handler coroutines and their replies.                         *)
(* SpecLive  dispatches one update at a time, without end, the oracle      *)
(*           answering by who is in which channel (joined); users who are *)
(*           prompted join and verify.  Spec and SpecConc take any answer *)
(*           of the oracle and leave `joined` alone.                       *)
(* SpecLoad  starts on any content of bot_state.json (none, no JSON, a      *)
(*           document lacking keys or written under another channel       *)
(*           count) and dispatches one update at a time.                   *)
(* The bot starts on the file an earlier run left (PriorRuns), or on none.  *)
(* The write of bot_state.json is assumed to succeed.                      *)
(***************************************************************************)
EXTENDS Integers, Sequences, FiniteSets, TLC

VARIABLES file, last, tasks, updates, joined

vars == <<file, last, tasks, updates, joined>>

-----------------------------------------------------------------------------
(* Bounds *)

NumUsers == 2

\* Updates (commands and callbacks) dispatched since the bot was started.
MaxUpdates == 4

\* Handler coroutines that can be in flight at once under SpecConc.
NumTasks == 2

\* Updates dispatched since the bot was started, under SpecConc.
MaxConcUpdates == 4

Users == 1..NumUsers

\* Users under SpecLive.
NumLiveUsers == 1

LiveUsers == 1..NumLiveUsers

-----------------------------------------------------------------------------
(* Configuration *)

CHANNELS == <<[id |-> 1], [id |-> 2], [id |-> 3]>>

REQUIRED_JOINS == 1

\* What get_chat_member can produce: a status, or an exception ("error").
MemberStatuses == {"member", "administrator", "creator"}

Statuses == MemberStatuses \cup {"left", "kicked", "restricted"}

Answers == Statuses \cup {"error"}

-----------------------------------------------------------------------------
(* Python list operations *)

Contains(s, x) == \E i \in 1..Len(s) : s[i] = x

\* list.remove(x): removes the first occurrence only.
Remove(s, x) ==
  LET i == CHOOSE k \in 1..Len(s) : s[k] = x /\ \A j \in 1..(k - 1) : s[j] # x
  IN  SubSeq(s, 1, i - 1) \o SubSeq(s, i + 1, Len(s))

EmptyChannel == [pending |-> <<>>, counted |-> <<>>]

-----------------------------------------------------------------------------
(* State helpers *)

default_state ==
  [active_index |-> 0, channels |-> [i \in 1..Len(CHANNELS) |-> EmptyChannel]]

\* The JSON document written for a state dict.
Doc(state) ==
  [has_active_index |-> TRUE, active_index |-> state.active_index,
   channels_kind |-> "list", channels |-> state.channels]

AbsentFile == [kind |-> "absent", doc |-> Doc(default_state)]

load_state(f) ==
  LET d == IF f.kind = "json" THEN f.doc ELSE Doc(default_state)
      active == IF d.has_active_index THEN d.active_index ELSE 0
      chs0 == IF d.channels_kind # "list"
              THEN [i \in 1..Len(CHANNELS) |-> EmptyChannel]
              ELSE d.channels
      chs1 == IF Len(chs0) < Len(CHANNELS)
              THEN chs0 \o [i \in 1..(Len(CHANNELS) - Len(chs0)) |-> EmptyChannel]
              ELSE chs0
      chs2 == IF Len(chs1) > Len(CHANNELS)
              THEN SubSeq(chs1, 1, Len(CHANNELS))
              ELSE chs1
  IN  [active_index |-> active, channels |-> chs2]

save_state(state) == [kind |-> "json", doc |-> Doc(state)]

-----------------------------------------------------------------------------
(* Helpers *)

\* Mutant: appends to pending without looking for the user in it.
ensure_pending_appending(state, channel_idx, user_id, status) ==
  LET ch == state.channels[channel_idx + 1]
      counted1 == IF status \in {"left", "kicked"} /\ Contains(ch.counted, user_id)
                  THEN Remove(ch.counted, user_id)
                  ELSE ch.counted
  IN  [state EXCEPT !.channels[channel_idx + 1] =
                       [pending |-> Append(ch.pending, user_id),
                        counted |-> counted1]]

\* Mutant: a user who left or was kicked stays in counted.
ensure_pending_keeping_counted(state, channel_idx, user_id, status) ==
  LET ch == state.channels[channel_idx + 1]
      pending1 == IF ~Contains(ch.pending, user_id)
                  THEN Append(ch.pending, user_id)
                  ELSE ch.pending
  IN  [state EXCEPT !.channels[channel_idx + 1] =
                       [pending |-> pending1, counted |-> ch.counted]]

\* status: the answer of get_chat_member inside ensure_pending
\* ("error": the call raised, status = None).
ensure_pending(state, channel_idx, user_id, status) ==
  LET ch == state.channels[channel_idx + 1]
      counted1 == IF status \in {"left", "kicked"} /\ Contains(ch.counted, user_id)
                  THEN Remove(ch.counted, user_id)
                  ELSE ch.counted
      pending1 == IF ~Contains(ch.pending, user_id)
                  THEN Append(ch.pending, user_id)
                  ELSE ch.pending
  IN  [state EXCEPT !.channels[channel_idx + 1] =
                       [pending |-> pending1, counted |-> counted1]]

\* Mutant: credits a pending user without looking for them in counted.
mark_counted_again(state, channel_idx, user_id) ==
  LET ch == state.channels[channel_idx + 1]
  IN  IF Contains(ch.pending, user_id)
      THEN [state |-> [state EXCEPT !.channels[channel_idx + 1] =
                         [pending |-> Remove(ch.pending, user_id),
                          counted |-> Append(ch.counted, user_id)]],
            ret |-> TRUE]
      ELSE [state |-> state, ret |-> FALSE]

\* Mutant: credits a user who is not pending.
mark_counted_ignoring_pending(state, channel_idx, user_id) ==
  LET ch == state.channels[channel_idx + 1]
  IN  IF Contains(ch.counted, user_id)
      THEN [state |-> state, ret |-> FALSE]
      ELSE [state |-> [state EXCEPT !.channels[channel_idx + 1] =
                         [pending |-> IF Contains(ch.pending, user_id)
                                      THEN Remove(ch.pending, user_id)
                                      ELSE ch.pending,
                          counted |-> Append(ch.counted, user_id)]],
            ret |-> TRUE]

mark_counted_if_pending(state, channel_idx, user_id) ==
  LET ch == state.channels[channel_idx + 1]
  IN  IF Contains(ch.counted, user_id)
      THEN [state |-> state, ret |-> FALSE]
      ELSE IF Contains(ch.pending, user_id)
      THEN [state |-> [state EXCEPT !.channels[channel_idx + 1] =
                         [pending |-> Remove(ch.pending, user_id),
                          counted |-> Append(ch.counted, user_id)]],
            ret |-> TRUE]
      ELSE [state |-> state, ret |-> FALSE]

\* Mutant: the rotation ends at the last channel.
advance_without_wrap(state) ==
  LET idx == state.active_index
      counted_len == Len(state.channels[idx + 1].counted)
  IN  IF counted_len >= REQUIRED_JOINS /\ idx + 1 < Len(CHANNELS)
      THEN [state |-> [state EXCEPT !.active_index = idx + 1], ret |-> TRUE]
      ELSE [state |-> state, ret |-> FALSE]

\* Mutant: advances past the next channel.
advance_skipping(state) ==
  LET idx == state.active_index
      counted_len == Len(state.channels[idx + 1].counted)
  IN  IF counted_len >= REQUIRED_JOINS
      THEN [state |-> [state EXCEPT !.active_index = (idx + 2) % Len(CHANNELS)],
            ret |-> TRUE]
      ELSE [state |-> state, ret |-> FALSE]

advance_if_needed(state) ==
  LET idx == state.active_index
      counted_len == Len(state.channels[idx + 1].counted)
  IN  IF counted_len >= REQUIRED_JOINS
      THEN [state |-> [state EXCEPT !.active_index = (idx + 1) % Len(CHANNELS)],
            ret |-> TRUE]
      ELSE [state |-> state, ret |-> FALSE]

\* Mutant: an exception of get_chat_member counts as membership.
is_member_fail_open(answer) ==
  answer \in {"member", "administrator", "creator", "error"}

\* Mutant: any status that is not left or kicked counts as membership.
is_member_unless_gone(answer) ==
  answer \in {"member", "administrator", "creator", "restricted"}

\* answer: what get_chat_member produced; an exception yields False.
is_member(answer) == answer \in {"member", "administrator", "creator"}

\* No channel index / no files delivered.
NoIdx == 0 - 1

\* The files delivered for a channel index (the index identifies them).
send_channel_files(channel_idx) == channel_idx

-----------------------------------------------------------------------------
(* Handlers: the synchronous stretches between await points.  Each yields   *)
(* the handler's state dict, whether save_state ran, and what was replied.  *)

Outcome(state, saved, reply, files, advanced) ==
  [state |-> state, saved |-> saved, reply |-> reply, files |-> files,
   advanced |-> advanced]

\* start, is_member returned True.
start_member(state, idx, user_id) ==
  LET m == mark_counted_if_pending(state, idx, user_id)
      a == advance_if_needed(m.state)
  IN  IF m.ret
      THEN Outcome(a.state, TRUE,
                   IF a.ret THEN "start_counted_advanced" ELSE "start_member_files",
                   send_channel_files(idx), a.ret)
      ELSE Outcome(m.state, FALSE, "start_already_member",
                   send_channel_files(idx), FALSE)

\* Mutant: a non-member is made pending for the next channel as well.
start_not_member_two_channels(state, idx, user_id, status) ==
  Outcome(ensure_pending(ensure_pending(state, idx, user_id, status),
                         (idx + 1) % Len(CHANNELS), user_id, status),
          TRUE, "start_join_prompt", NoIdx, FALSE)

\* start, is_member returned False; status is ensure_pending's own answer.
start_not_member(state, idx, user_id, status) ==
  Outcome(ensure_pending(state, idx, user_id, status), TRUE,
          "start_join_prompt", NoIdx, FALSE)

\* The callback data after data.split("_"), without the leading "verify":
\* a sequence of tokens, each knowing whether it isdigit(), whether int()
\* raises ValueError on it, and its int().
Token(digits, val) == [digits |-> digits, raises |-> FALSE, val |-> val]

\* A token such as "\u00b2" (superscript two): str.isdigit() is True of it,
\* int() accepts decimal digits only and raises ValueError.
NonDecimalDigit == [digits |-> TRUE, raises |-> TRUE, val |-> 0]

DataFor(idx) == <<Token(TRUE, idx)>>

VerifyData ==
  {DataFor(i) : i \in 0..Len(CHANNELS)}
    \cup {<<Token(FALSE, 0 - 1)>>, <<Token(TRUE, 0), Token(TRUE, 0)>>,
          <<NonDecimalDigit>>}

\* verify_callback up to the range check: the reply that ends it, or "ok";
\* "verify_value_error" when int() raises: the handler ends with the
\* exception, having replied nothing.
verify_parse(data) ==
  IF (1 + Len(data)) # 2 \/ ~data[1].digits
  THEN "verify_invalid_request"
  ELSE IF data[1].raises
  THEN "verify_value_error"
  ELSE IF data[1].val < 0 \/ data[1].val >= Len(CHANNELS)
  THEN "verify_unavailable"
  ELSE "ok"

\* Mutant: a credit for any channel moves active_index past that channel.
verify_member_any_channel(state, target_idx, user_id) ==
  LET m == mark_counted_if_pending(state, target_idx, user_id)
      adv == [m.state EXCEPT !.active_index = (target_idx + 1) % Len(CHANNELS)]
  IN  IF m.ret
      THEN Outcome(adv, TRUE, "verify_counted",
                   send_channel_files(target_idx), TRUE)
      ELSE IF Contains(m.state.channels[target_idx + 1].counted, user_id)
           THEN Outcome(m.state, FALSE, "verify_already_counted",
                        send_channel_files(target_idx), FALSE)
           ELSE Outcome(m.state, FALSE, "verify_not_pending",
                        send_channel_files(target_idx), FALSE)

\* Mutant: the threshold is evaluated for a member who is not newly counted.
verify_member_recounting(state, target_idx, user_id) ==
  LET m == mark_counted_if_pending(state, target_idx, user_id)
      a == advance_if_needed(m.state)
  IN  IF m.state.active_index = target_idx
      THEN Outcome(a.state, TRUE, "verify_counted",
                   send_channel_files(target_idx), a.ret)
      ELSE Outcome(m.state, m.ret,
                   IF m.ret THEN "verify_counted" ELSE "verify_already_counted",
                   send_channel_files(target_idx), FALSE)

\* verify_callback, is_member returned True.
verify_member(state, target_idx, user_id) ==
  LET m == mark_counted_if_pending(state, target_idx, user_id)
      a == advance_if_needed(m.state)
  IN  IF m.ret
      THEN IF m.state.active_index = target_idx
           THEN Outcome(a.state, TRUE, "verify_counted",
                        send_channel_files(target_idx), a.ret)
           ELSE Outcome(m.state, TRUE, "verify_counted",
                        send_channel_files(target_idx), FALSE)
      ELSE IF Contains(m.state.channels[target_idx + 1].counted, user_id)
           THEN Outcome(m.state, FALSE, "verify_already_counted",
                        send_channel_files(target_idx), FALSE)
           ELSE Outcome(m.state, FALSE, "verify_not_pending",
                        send_channel_files(target_idx), FALSE)

\* Mutant: a failed verification evaluates the threshold and saves.
verify_not_member_advancing(state) ==
  Outcome(advance_if_needed(state).state, TRUE, "verify_not_member", NoIdx,
          FALSE)

\* verify_callback, is_member returned False.
verify_not_member(state) ==
  Outcome(state, FALSE, "verify_not_member", NoIdx, FALSE)

\* The whole start handler on file f; a2 is read only when a1 is no member.
start(f, user_id, a1, a2) ==
  LET state == load_state(f)
      idx == state.active_index
  IN  IF is_member(a1)
      THEN start_member(state, idx, user_id)
      ELSE start_not_member(state, idx, user_id, a2)

\* The whole verify_callback handler on file f, past the range check.
verify_callback(f, user_id, target_idx, a1) ==
  LET state == load_state(f)
  IN  IF ~is_member(a1)
      THEN verify_not_member(state)
      ELSE verify_member(state, target_idx, user_id)

Written(f, out) == IF out.saved THEN save_state(out.state) ELSE f

-----------------------------------------------------------------------------
(* Dispatch *)

Uncalled == "uncalled"

\* What is kept of a completed handler: the update, the answers that
\* get_chat_member gave to is_member (a1) and to ensure_pending (a2), and
\* what the handler replied and delivered.
Completed(op, user_id, idx, data, a1, a2, out) ==
  [op |-> op, user |-> user_id, idx |-> idx, data |-> data, a1 |-> a1,
   a2 |-> a2, reply |-> out.reply, files |-> out.files,
   advanced |-> out.advanced]

NoUpdate ==
  [op |-> "none", user |-> 0, idx |-> NoIdx, data |-> <<>>, a1 |-> Uncalled,
   a2 |-> Uncalled, reply |-> "none", files |-> NoIdx, advanced |-> FALSE]

\* A handler coroutine under concurrent dispatch: where it is suspended
\* (pc: "idle" before its first update, "done" once it has returned), its
\* update (op, user, idx), the state dict it got from load_state (loaded),
\* and, once it has returned, what it replied.
Task(pc, op, user_id, idx, loaded, reply, advanced) ==
  [pc |-> pc, op |-> op, user |-> user_id, idx |-> idx, loaded |-> loaded,
   reply |-> reply, advanced |-> advanced]

IdleTask == Task("idle", "none", 0, NoIdx, default_state, "none", FALSE)

\* An update of an earlier run of the bot, with the oracle's answers.
Upd(op, user_id, idx, a1, a2) ==
  [op |-> op, user |-> user_id, idx |-> idx, a1 |-> a1, a2 |-> a2]

\* The file after a handler has handled update upd on file f.
Handled(f, upd) ==
  IF upd.op = "start"
  THEN Written(f, start(f, upd.user, upd.a1, upd.a2))
  ELSE Written(f, verify_callback(f, upd.user, upd.idx, upd.a1))

RECURSIVE Replay(_, _)
Replay(f, run) ==
  IF run = <<>> THEN f ELSE Replay(Handled(f, Head(run)), Tail(run))

\* User u is prompted to join channel c, joins it and is verified.
JoinAndVerify(u, c) ==
  <<Upd("start", u, c, "left", "left"), Upd("verify", u, c, "member", Uncalled)>>

\* What the bot handled before it was last started: nothing (first run, no
\* file), or user 1 joining channels 0 and 1 (a rotation under way).
PriorRuns == {<<>>, JoinAndVerify(1, 0) \o JoinAndVerify(1, 1)}

\* bot_state.json as main() finds it: written by the handlers of an earlier
\* run, starting from no file.
PriorFiles == {Replay(AbsentFile, run) : run \in PriorRuns}

\* main(): load_state() then save_state(state).
Init ==
  /\ \E f \in PriorFiles : file = save_state(load_state(f))
  /\ last = NoUpdate
  /\ tasks = [t \in 1..NumTasks |-> IdleTask]
  /\ joined = {}
  /\ updates = 0

\* An update arrives and is dispatched.
Dispatch == updates < MaxUpdates /\ updates' = updates + 1

-----------------------------------------------------------------------------
(* Sequential dispatch: one update at a time, each handler run to its end *)

Start ==
  /\ Dispatch
  /\ \E u \in Users, a1 \in Answers :
     \E a2 \in (IF is_member(a1) THEN {Uncalled} ELSE Answers) :
       LET out == start(file, u, a1, a2)
       IN  /\ file' = Written(file, out)
           /\ last' = Completed("start", u, load_state(file).active_index,
                                <<>>, a1, a2, out)
           /\ UNCHANGED <<tasks, joined>>

VerifyRejected ==
  \E u \in Users, data \in VerifyData :
    /\ Dispatch
    /\ verify_parse(data) # "ok"
    /\ last' = Completed("verify", u, NoIdx, data, Uncalled, Uncalled,
                         Outcome(load_state(file), FALSE, verify_parse(data),
                                 NoIdx, FALSE))
    /\ UNCHANGED <<file, tasks, joined>>

Verify ==
  \E u \in Users, data \in VerifyData, a1 \in Answers :
    /\ Dispatch
    /\ verify_parse(data) = "ok"
    /\ LET out == verify_callback(file, u, data[1].val, a1)
       IN  /\ file' = Written(file, out)
           /\ last' = Completed("verify", u, data[1].val, data, a1,
                                Uncalled, out)
    /\ UNCHANGED <<tasks, joined>>

Next == Start \/ VerifyRejected \/ Verify

Spec == Init /\ [][Next]_vars

-----------------------------------------------------------------------------
(* Concurrent dispatch: handlers interleave at their awaits.  A handler's   *)
(* steps are the stretches of code between two awaits of get_chat_member;   *)
(* the replies and file sends that follow the last one touch no state.      *)

TaskIds == 1..NumTasks

Free(t) == tasks[t].pc \in {"idle", "done"}

ConcDispatch == updates < MaxConcUpdates /\ updates' = updates + 1

\* The handler of task t returns with outcome out.
Return(t, out) ==
  /\ file' = Written(file, out)
  /\ tasks' = [tasks EXCEPT ![t] = Task("done", @.op, @.user, @.idx, @.loaded,
                                        out.reply, out.advanced)]

\* start up to `await is_member(...)`: load_state and the active index.
CStart(t) ==
  /\ Free(t)
  /\ ConcDispatch
  /\ \E u \in Users :
       LET state == load_state(file)
       IN  tasks' = [tasks EXCEPT ![t] =
                       Task("start_is_member", "start", u, state.active_index,
                            state, "none", FALSE)]
  /\ UNCHANGED <<file, last, joined>>

\* is_member returns to start.  A member: the handler runs to its end.
\* No member: it runs into ensure_pending, up to its await.
CStartIsMember(t) ==
  /\ tasks[t].pc = "start_is_member"
  /\ \E a1 \in Answers :
       IF is_member(a1)
       THEN Return(t, start_member(tasks[t].loaded, tasks[t].idx,
                                   tasks[t].user))
       ELSE /\ tasks' = [tasks EXCEPT ![t].pc = "start_get_chat_member"]
            /\ UNCHANGED file
  /\ UNCHANGED <<last, updates, joined>>

\* get_chat_member returns to ensure_pending: the handler runs to its end.
CStartGetChatMember(t) ==
  /\ tasks[t].pc = "start_get_chat_member"
  /\ \E a2 \in Answers :
       Return(t, start_not_member(tasks[t].loaded, tasks[t].idx,
                                  tasks[t].user, a2))
  /\ UNCHANGED <<last, updates, joined>>

\* verify_callback up to `await is_member(...)`: parse, load_state, range
\* check.  (The earlier `await query.answer()` precedes every read.)
CVerify(t) ==
  /\ Free(t)
  /\ ConcDispatch
  /\ \E u \in Users, data \in VerifyData :
       LET state == load_state(file)
       IN  IF verify_parse(data) # "ok"
           THEN tasks' = [tasks EXCEPT ![t] =
                            Task("done", "verify", u, NoIdx, state,
                                 verify_parse(data), FALSE)]
           ELSE tasks' = [tasks EXCEPT ![t] =
                            Task("verify_is_member", "verify", u, data[1].val,
                                 state, "none", FALSE)]
  /\ UNCHANGED <<file, last, joined>>

\* is_member returns to verify_callback: the handler runs to its end.
CVerifyIsMember(t) ==
  /\ tasks[t].pc = "verify_is_member"
  /\ \E a1 \in Answers :
       Return(t, IF is_member(a1)
                 THEN verify_member(tasks[t].loaded, tasks[t].idx,
                                    tasks[t].user)
                 ELSE verify_not_member(tasks[t].loaded))
  /\ UNCHANGED <<last, updates, joined>>

NextConc ==
  \E t \in TaskIds :
    \/ CStart(t)
    \/ CStartIsMember(t)
    \/ CStartGetChatMember(t)
    \/ CVerify(t)
    \/ CVerifyIsMember(t)

SpecConc == Init /\ [][NextConc]_vars

-----------------------------------------------------------------------------
(* Reading the persisted state *)

ChannelIdxs == 0..(Len(CHANNELS) - 1)

Elems(s) == {s[i] : i \in 1..Len(s)}

ActiveIndex(f) == load_state(f).active_index

PendingOf(f, c) == Elems(load_state(f).channels[c + 1].pending)

CountedOf(f, c) == Elems(load_state(f).channels[c + 1].counted)

CountedLen(f, c) == Len(load_state(f).channels[c + 1].counted)

-----------------------------------------------------------------------------
(* Users joining and leaving channels, the oracle answering truthfully *)

\* get_chat_member for user u and channel c: Telegram answers "left" for a
\* user who is not in the chat.
Oracle(u, c) == IF <<u, c>> \in joined THEN "member" ELSE "left"

\* /start by user u.
LRequest(u) ==
  LET c == ActiveIndex(file)
      a1 == Oracle(u, c)
      a2 == IF is_member(a1) THEN Uncalled ELSE Oracle(u, c)
      out == start(file, u, a1, a2)
  IN  /\ file' = Written(file, out)
      /\ last' = Completed("start", u, c, <<>>, a1, a2, out)
      /\ UNCHANGED <<tasks, updates, joined>>

\* User u presses the verify button of channel c.
LVerify(u, c) ==
  LET a1 == Oracle(u, c)
      out == verify_callback(file, u, c, a1)
  IN  /\ file' = Written(file, out)
      /\ last' = Completed("verify", u, c, DataFor(c), a1, Uncalled, out)
      /\ UNCHANGED <<tasks, updates, joined>>

\* User u, prompted to join the active channel, joins it.
Join(u) ==
  LET c == ActiveIndex(file)
  IN  /\ u \in PendingOf(file, c)
      /\ <<u, c>> \notin joined
      /\ joined' = joined \cup {<<u, c>>}
      /\ UNCHANGED <<file, last, tasks, updates>>

\* User u leaves channel c; a user prompted to join the active channel does
\* not leave it before having verified.
Leave(u, c) ==
  /\ <<u, c>> \in joined
  /\ ~(c = ActiveIndex(file) /\ u \in PendingOf(file, c))
  /\ joined' = joined \ {<<u, c>>}
  /\ UNCHANGED <<file, last, tasks, updates>>

NextLive ==
  \E u \in LiveUsers :
    \/ LRequest(u)
    \/ \E c \in ChannelIdxs : LVerify(u, c)
    \/ Join(u)
    \/ \E c \in ChannelIdxs : Leave(u, c)

\* What user u does next when u is no member of the active channel or has
\* been prompted to join it: request access, then join, then verify.
Flow(u) ==
  LET c == ActiveIndex(file)
  IN  \/ <<u, c>> \notin joined /\ u \notin PendingOf(file, c) /\ LRequest(u)
      \/ Join(u)
      \/ <<u, c>> \in joined /\ u \in PendingOf(file, c) /\ LVerify(u, c)

SpecLive ==
  Init /\ [][NextLive]_vars /\ \A u \in LiveUsers : WF_vars(Flow(u))

-----------------------------------------------------------------------------
(* Starting on any persisted value *)

\* Updates dispatched under SpecLoad.
MaxLoadUpdates == 2

\* A channel entry as a handler leaves it: empty, or user 1 counted.
StoredChannels == {EmptyChannel, [pending |-> <<>>, counted |-> <<1>>]}

\* The documents a run of the bot configured with n channels writes.
WrittenUnder(n) ==
  {[has_active_index |-> TRUE, active_index |-> a, channels_kind |-> "list",
    channels |-> chs] : a \in 0..(n - 1), chs \in [1..n -> StoredChannels]}

\* What load_state can find in bot_state.json: no file, a file that is not
\* JSON, a document written under one channel fewer or one more than
\* CHANNELS has now, or such a document lacking "active_index" or "channels".
PersistedValues ==
  {AbsentFile, [kind |-> "unreadable", doc |-> Doc(default_state)]}
    \cup {[kind |-> "json", doc |-> d] :
            d \in UNION {WrittenUnder(n) :
                          n \in (Len(CHANNELS) - 1)..(Len(CHANNELS) + 1)}}
    \cup {[kind |-> "json", doc |-> [d EXCEPT !.has_active_index = FALSE]] :
            d \in WrittenUnder(Len(CHANNELS))}
    \cup {[kind |-> "json", doc |-> [d EXCEPT !.channels_kind = "missing"]] :
            d \in WrittenUnder(Len(CHANNELS))}

InitLoad ==
  /\ file \in PersistedValues
  /\ last = NoUpdate
  /\ tasks = [t \in 1..NumTasks |-> IdleTask]
  /\ joined = {}
  /\ updates = 0

LoadDispatch == updates < MaxLoadUpdates /\ updates' = updates + 1

\* main(): load_state() then save_state(state), before any update.
Main ==
  /\ updates = 0
  /\ file # save_state(load_state(file))
  /\ file' = save_state(load_state(file))
  /\ UNCHANGED <<last, tasks, updates, joined>>

\* start on whatever load_state returned: CHANNELS[idx] raises IndexError
\* for an idx past the last channel, before any reply.
LoadStart ==
  /\ LoadDispatch
  /\ \E u \in Users, a1 \in Answers :
     \E a2 \in (IF is_member(a1) THEN {Uncalled} ELSE Answers) :
       LET state == load_state(file)
           idx == state.active_index
       IN  IF idx >= Len(CHANNELS)
           THEN /\ last' = Completed("start", u, idx, <<>>, Uncalled, Uncalled,
                                     Outcome(state, FALSE, "start_index_error",
                                             NoIdx, FALSE))
                /\ UNCHANGED file
           ELSE LET out == start(file, u, a1, a2)
                IN  /\ file' = Written(file, out)
                    /\ last' = Completed("start", u, idx, <<>>, a1, a2, out)
  /\ UNCHANGED <<tasks, joined>>

\* verify_callback on whatever load_state returned: it indexes with the
\* target index, which it has range-checked.
LoadVerify ==
  \E u \in Users, data \in VerifyData, a1 \in Answers :
    /\ LoadDispatch
    /\ IF verify_parse(data) # "ok"
       THEN /\ last' = Completed("verify", u, NoIdx, data, Uncalled, Uncalled,
                                 Outcome(load_state(file), FALSE,
                                         verify_parse(data), NoIdx, FALSE))
            /\ UNCHANGED file
       ELSE LET out == verify_callback(file, u, data[1].val, a1)
            IN  /\ file' = Written(file, out)
                /\ last' = Completed("verify", u, data[1].val, data, a1,
                                     Uncalled, out)
    /\ UNCHANGED <<tasks, joined>>

NextLoad == Main \/ LoadStart \/ LoadVerify

SpecLoad == InitLoad /\ [][NextLoad]_vars

-----------------------------------------------------------------------------
(* Claims *)

\* C1: in every reachable state, for every channel, no user ID is in both
\* that channel's pending and counted collections.
C1_SetDisjoint ==
  \A c \in ChannelIdxs : PendingOf(file, c) \cap CountedOf(file, c) = {}

\* Tasks t1 and t2 ran Verify concurrently for two distinct users pending
\* for channel c, both reported members, each having loaded a state in which
\* c is the active channel and one join short of REQUIRED_JOINS; both have
\* returned.
VerifyRace(t1, t2, c) ==
  /\ t1 # t2
  /\ tasks[t1].user # tasks[t2].user
  /\ \A t \in {t1, t2} :
       /\ tasks[t].pc = "done"
       /\ tasks[t].op = "verify"
       /\ tasks[t].idx = c
       /\ tasks[t].reply # "verify_not_member"
       /\ tasks[t].loaded.active_index = c
       /\ Len(tasks[t].loaded.channels[c + 1].counted) = REQUIRED_JOINS - 1
       /\ {tasks[t1].user, tasks[t2].user}
            \subseteq Elems(tasks[t].loaded.channels[c + 1].pending)

\* C2: after two such concurrent Verify operations complete, exactly one
\* advancement of activeIndex has occurred and both users are credited.
C2_ConcurrentVerify ==
  \A t1, t2 \in TaskIds, c \in ChannelIdxs :
    VerifyRace(t1, t2, c)
      => /\ Cardinality({t \in {t1, t2} : tasks[t].advanced}) = 1
         /\ ActiveIndex(file) = (c + 1) % Len(CHANNELS)
         /\ {tasks[t1].user, tasks[t2].user} \subseteq CountedOf(file, c)

\* The replies of the handler runs that call save_state.
SavingReplies ==
  {"start_counted_advanced", "start_member_files", "start_join_prompt",
   "verify_counted"}

\* The persisted state holds what the returned handler of task t wrote for
\* its user: pending after a join prompt, counted after a credit.
EffectKept(t) ==
  IF tasks[t].reply = "start_join_prompt"
  THEN tasks[t].user \in PendingOf(file, tasks[t].idx)
  ELSE tasks[t].user \in CountedOf(file, tasks[t].idx)

\* C3: every mutating operation reads, modifies and persists as one atomic
\* unit, so no update is lost: when two operations of distinct users that
\* started from the same persisted state have both saved, the persisted state
\* holds the effect of both (two concurrent RequestAccess calls by distinct
\* non-member users leave both users in pending).
C3_AtomicMutation ==
  \A t1, t2 \in TaskIds :
    (/\ t1 # t2
     /\ tasks[t1].user # tasks[t2].user
     /\ tasks[t1].loaded = tasks[t2].loaded
     /\ \A t \in {t1, t2} : /\ tasks[t].pc = "done"
                            /\ tasks[t].reply \in SavingReplies)
      => EffectKept(t1) /\ EffectKept(t2)

\* C4: whenever an operation advances activeIndex away from channel c, the
\* resulting state has channel c's pending and counted both empty.
C4_ResetOnAdvance ==
  last.advanced =>
    /\ PendingOf(file, last.idx) = {}
    /\ CountedOf(file, last.idx) = {}

\* A Verify(u, c) step that passes the range check with the oracle reporting
\* u a member of c.
MemberVerifyStep(u, c) ==
  /\ updates' = updates + 1
  /\ last'.op = "verify"
  /\ last'.user = u
  /\ last'.idx = c
  /\ last'.a1 \in MemberStatuses

\* C5: for u pending for c and reported a member, Verify(u, c) twice in a
\* row credits u exactly once: the first call newly counts u, the second
\* reports AlreadyCounted, leaves the state alone and does not advance.
C5_IdempotentCounting ==
  [][\A u \in Users, c \in ChannelIdxs :
       /\ (MemberVerifyStep(u, c) /\ u \in PendingOf(file, c))
            => /\ last'.reply = "verify_counted"
               /\ u \in CountedOf(file', c)
       /\ (MemberVerifyStep(u, c) /\ last.op = "verify" /\ last.user = u
            /\ last.idx = c /\ last.reply = "verify_counted")
            => /\ last'.reply = "verify_already_counted"
               /\ file' = file
               /\ ~last'.advanced]_vars

\* C6: every step that adds u to channel c's counted finds u in channel c's
\* pending immediately before; a member who is not pending is not credited.
C6_CreditThroughPending ==
  [][\A u \in Users, c \in ChannelIdxs :
       (u \in CountedOf(file', c) /\ u \notin CountedOf(file, c))
         => u \in PendingOf(file, c)]_vars

C6_Witness ==
  /\ last.reply = "verify_counted"
  /\ last.user \in CountedOf(file, last.idx)

\* C7: activeIndex is always in [0, channelCount), and every step that
\* changes it moves it from i to (i + 1) mod channelCount.
C7_ClosedRotation ==
  /\ ActiveIndex(file) \in ChannelIdxs
  /\ [][/\ ActiveIndex(file') \in ChannelIdxs
        /\ ActiveIndex(file') # ActiveIndex(file)
             => ActiveIndex(file') = (ActiveIndex(file) + 1) % Len(CHANNELS)]_vars

\* The last channel reached its threshold and the rotation wrapped to 0.
C7_Witness ==
  /\ last.advanced
  /\ last.idx = Len(CHANNELS) - 1
  /\ ActiveIndex(file) = 0

\* C8 as stated: for every valid c, active or not, a Verify(u, c) that newly
\* credits u with the count of c at least RequiredJoins sets activeIndex to
\* (c + 1) mod channelCount and reports the advancement.
C8_Original ==
  (last.op = "verify" /\ last.reply = "verify_counted"
   /\ CountedLen(file, last.idx) >= REQUIRED_JOINS)
    => /\ ActiveIndex(file) = (last.idx + 1) % Len(CHANNELS)
       /\ last.advanced

\* C8 amended: a Verify(u, c) that newly credits u advances activeIndex to
\* (c + 1) mod channelCount, and reports it, when c is the active channel
\* and its count is then at least RequiredJoins; when c is not the active
\* channel it leaves activeIndex unchanged and reports no advancement.
C8_ThresholdOnActive ==
  [][(updates' = updates + 1 /\ last'.op = "verify"
      /\ last'.reply = "verify_counted")
      => IF ActiveIndex(file) = last'.idx
         THEN CountedLen(file', last'.idx) >= REQUIRED_JOINS
                => /\ ActiveIndex(file') = (last'.idx + 1) % Len(CHANNELS)
                   /\ last'.advanced
         ELSE /\ ActiveIndex(file') = ActiveIndex(file)
              /\ ~last'.advanced]_vars

C8_Witness ==
  /\ last.op = "verify"
  /\ last.reply = "verify_counted"
  /\ last.advanced
  /\ CountedLen(file, last.idx) >= REQUIRED_JOINS
  /\ ActiveIndex(file) = (last.idx + 1) % Len(CHANNELS)

\* A step of the handler op in which every oracle call raised.
ErrorStep(op) ==
  /\ updates' = updates + 1
  /\ last'.op = op
  /\ last'.idx # NoIdx
  /\ last'.a1 = "error"
  /\ last'.a2 \in {"error", Uncalled}

\* The step just taken has the reply and the resulting state of outcome out.
SameAs(out) ==
  /\ file' = Written(file, out)
  /\ last'.reply = out.reply
  /\ last'.files = out.files
  /\ last'.advanced = out.advanced

NonMemberStatuses == Statuses \ MemberStatuses

\* C9 as stated: an operation whose oracle call errors has the result and
\* the resulting state of the same operation, from the same state, with the
\* oracle reporting any non-member status (left, kicked or another one).
C9_Original ==
  [][\A s \in NonMemberStatuses :
       /\ ErrorStep("start") => SameAs(start(file, last'.user, s, s))
       /\ ErrorStep("verify")
            => SameAs(verify_callback(file, last'.user, last'.idx, s))]_vars

\* C9 amended: Verify with an erroring oracle behaves as with any non-member
\* status; RequestAccess with an erroring oracle behaves as with a non-member
\* status other than left or kicked, and as with left or kicked when the
\* user is not in the channel's counted (left and kicked alone take a
\* counted user out of counted).
C9_FailClosed ==
  [][\A s \in NonMemberStatuses :
       /\ (ErrorStep("start")
            /\ (s \in {"left", "kicked"}
                  => last'.user \notin CountedOf(file, last'.idx)))
            => SameAs(start(file, last'.user, s, s))
       /\ ErrorStep("verify")
            => SameAs(verify_callback(file, last'.user, last'.idx, s))]_vars

\* /start with an erroring oracle by a user counted for the active channel.
C9_Witness ==
  /\ last.op = "start"
  /\ last.a1 = "error"
  /\ last.a2 = "error"
  /\ last.user \in CountedOf(file, last.idx)

\* C10: channel c's files are delivered to u only within an operation on c
\* in which the oracle reported u a member, administrator or creator of c.
C10_GatedDelivery ==
  last.files # NoIdx
    => /\ last.a1 \in MemberStatuses
       /\ last.files = last.idx

C10_Witness ==
  /\ last.files # NoIdx
  /\ last.op = "verify"
  /\ last.reply = "verify_not_pending"

Gone == {"left", "kicked"}

\* An operation of u on channel c in which every answer of the oracle was
\* left or kicked.
GoneStep(u, c) ==
  /\ updates' = updates + 1
  /\ last'.user = u
  /\ last'.idx = c
  /\ last'.a1 \in Gone
  /\ last'.a2 \in Gone \cup {Uncalled}

\* C11 as stated: for any channel c in which u is counted, an operation of u
\* on c to which the oracle reports u left or kicked detects the leave and
\* moves u out of counted for c (so that a later Verify counts u again).
C11_Original ==
  [][\A u \in Users, c \in ChannelIdxs :
       (GoneStep(u, c) /\ u \in CountedOf(file, c))
         => u \notin CountedOf(file', c)]_vars

\* C11 amended: leave detection is part of RequestAccess alone, hence of the
\* active channel alone.  A RequestAccess of a user u counted for the active
\* channel c, whose leave check reports left or kicked, moves u from counted
\* to pending for c, and a Verify(u, c) that follows with the oracle
\* reporting u a member counts u again; a Verify(u, c) to which the oracle
\* reports left or kicked detects nothing and leaves u counted.
C11_RejoinRecount ==
  [][\A u \in Users, c \in ChannelIdxs :
       /\ (GoneStep(u, c) /\ last'.op = "start" /\ u \in CountedOf(file, c))
            => /\ u \notin CountedOf(file', c)
               /\ u \in PendingOf(file', c)
       /\ (MemberVerifyStep(u, c) /\ last.op = "start" /\ last.user = u
            /\ last.idx = c /\ last.a2 \in Gone)
            => /\ last'.reply = "verify_counted"
               /\ u \in CountedOf(file', c)
               /\ u \notin PendingOf(file', c)
       /\ (GoneStep(u, c) /\ last'.op = "verify" /\ u \in CountedOf(file, c))
            => /\ u \in CountedOf(file', c)
               /\ file' = file]_vars

\* User 1, whom the earlier run counted for channels 0 and 1, is counted for
\* channel 0 a second time, the rotation having wrapped past channel 2
\* (without the earlier run no three channels hold a credit this early).
C11_Witness ==
  /\ last.op = "verify"
  /\ last.reply = "verify_counted"
  /\ last.user = 1
  /\ last.idx = 0
  /\ 1 \in CountedOf(file, 0) \cap CountedOf(file, 1)
  /\ CountedOf(file, 2) # {}

\* C12: a RequestAccess to which the oracle reports the user a member of the
\* active channel returns AlreadyMember and leaves pending, counted and
\* activeIndex of every channel unchanged, whatever the user's prior status
\* for that channel; a user is newly counted through Verify only.
C12_MemberStartReadOnly ==
  [][/\ (updates' = updates + 1 /\ last'.op = "start"
         /\ last'.a1 \in MemberStatuses)
          => /\ last'.reply = "start_already_member"
             /\ load_state(file') = load_state(file)
     /\ \A u \in Users, c \in ChannelIdxs :
          (u \in CountedOf(file', c) /\ u \notin CountedOf(file, c))
            => last'.op = "verify"]_vars

\* A Verify step whose callback data does not name a configured channel.
BadIndexStep ==
  /\ updates' = updates + 1
  /\ last'.op = "verify"
  /\ verify_parse(last'.data) # "ok"

\* C13: a Verify request whose channel index is out of range or malformed is
\* answered with the invalid-request or the unavailable-channel reply, the
\* handler raising no error, and leaves the persisted state unchanged.
C13_BadIndex ==
  [][BadIndexStep
       => /\ last'.reply \in {"verify_invalid_request", "verify_unavailable"}
          /\ file' = file]_vars

\* C14: a Verify(u, c) with a valid c to which the oracle reports u no member
\* of c, or errors, returns VerificationFailed, delivers nothing and leaves
\* pending, counted and activeIndex unchanged, also when u is counted for c.
C14_FailedVerifyNoMutation ==
  [][(updates' = updates + 1 /\ last'.op = "verify" /\ last'.idx # NoIdx
      /\ last'.a1 \notin MemberStatuses)
       => /\ last'.reply = "verify_not_member"
          /\ last'.files = NoIdx
          /\ ~last'.advanced
          /\ file' = file]_vars

\* The oracle raised in a Verify of a user counted for the active channel.
C14_Witness ==
  /\ last.op = "verify"
  /\ last.a1 = "error"
  /\ last.reply = "verify_not_member"
  /\ last.idx = ActiveIndex(file)
  /\ last.user \in CountedOf(file, last.idx)

\* How many times x occurs in the list s.
Count(s, x) == Cardinality({i \in 1..Len(s) : s[i] = x})

PendingList(f, c) == load_state(f).channels[c + 1].pending

CountedList(f, c) == load_state(f).channels[c + 1].counted

\* C15: after a RequestAccess(u) to which the oracle reports u no member of
\* the active channel, u occurs exactly once in that channel's pending, and
\* the same RequestAccess with the same oracle answers, repeated at once,
\* leaves the state unchanged.
C15_PendingIdempotent ==
  /\ [](last.reply = "start_join_prompt"
         => /\ Count(PendingList(file, last.idx), last.user) = 1
            /\ Written(file, start(file, last.user, last.a1, last.a2)) = file)
  /\ [][(updates' = updates + 1 /\ last'.op = "start"
         /\ last'.a1 \notin MemberStatuses /\ last.op = "start"
         /\ last'.user = last.user /\ last'.a1 = last.a1
         /\ last'.a2 = last.a2)
          => (file' = file /\ last' = last)]_vars

\* A user already pending for the active channel has requested access again,
\* the oracle reporting no membership.
C15_Witness ==
  /\ last.op = "start"
  /\ last.reply = "start_join_prompt"
  /\ last.a1 = "restricted"
  /\ last.a2 = "left"
  /\ PendingList(file, last.idx) = <<last.user>>

\* The users newly credited for channel c by the step.
NewlyCredited(c) == CountedOf(file', c) \ CountedOf(file, c)

\* C16: every step that moves activeIndex away from channel c credits
\* REQUIRED_JOINS distinct users for c who were not counted for c before,
\* whatever credits c holds from an earlier rotation cycle or from Verify
\* calls made while another channel was active.  (With REQUIRED_JOINS = 1 a
\* channel leaves as soon as it is credited once, so the credits of c since
\* it became active are those of the advancing step.)
C16_ThresholdEveryCycle ==
  [][ActiveIndex(file') # ActiveIndex(file)
       => /\ Cardinality(NewlyCredited(ActiveIndex(file))) >= REQUIRED_JOINS
          /\ last'.advanced
          /\ last'.idx = ActiveIndex(file)
          /\ NewlyCredited(ActiveIndex(file)) = {last'.user}]_vars

\* The rotation leaves a channel that held a credit before this cycle.
C16_Witness ==
  /\ last.advanced
  /\ ActiveIndex(file) = (last.idx + 1) % Len(CHANNELS)
  /\ last.user \in CountedOf(file, last.idx)
  /\ CountedLen(file, last.idx) > REQUIRED_JOINS

\* C17: whenever some user is no member of the active channel c, and users
\* who are no members request access, join and verify (fairness of Flow, the
\* oracle truthful), activeIndex eventually moves on from c, for every c, the
\* last channel included: the rotation has no terminal state.
C17_PerpetualRotation ==
  \A c \in ChannelIdxs :
    (ActiveIndex(file) = c /\ \E u \in LiveUsers : <<u, c>> \notin joined)
      ~> (ActiveIndex(file) = (c + 1) % Len(CHANNELS))

\* The rotation has wrapped and left channel 0 a second time, user 1 having
\* joined it again.
C17_Witness ==
  /\ last.op = "verify"
  /\ last.advanced
  /\ last.idx = 0
  /\ ActiveIndex(file) = 1
  /\ CountedOf(file, 2) # {}
  /\ <<last.user, 0>> \in joined

\* C18: whatever bot_state.json holds (nothing, no JSON, a document lacking
\* fields or written under a smaller or larger channel count), load_state
\* returns a state with exactly Len(CHANNELS) channel entries and an
\* active_index in [0, Len(CHANNELS)), and no handler indexes outside the
\* configured channels.
C18_LoadWellFormed ==
  /\ Len(load_state(file).channels) = Len(CHANNELS)
  /\ load_state(file).active_index \in ChannelIdxs
  /\ last.reply # "start_index_error"

\* C19: in every reachable state no user ID occurs twice in a channel's
\* pending list or in its counted list: the length of counted, which
\* advance_if_needed compares with REQUIRED_JOINS, is the number of distinct
\* credited users.
C19_ListsAreSets ==
  \A c \in ChannelIdxs :
    /\ Len(PendingList(file, c)) = Cardinality(PendingOf(file, c))
    /\ Len(CountedList(file, c)) = Cardinality(CountedOf(file, c))

\* A user who is both pending and counted for a channel has been verified
\* for it as a member: the test for the user in counted kept the list as
\* it was.
C19_Witness ==
  /\ last.op = "verify"
  /\ last.reply = "verify_already_counted"
  /\ last.user \in PendingOf(file, last.idx) \cap CountedOf(file, last.idx)

\* C20: an operation of user u on channel c (RequestAccess on the active
\* channel, Verify(u, c)) leaves the pending and counted lists of every other
\* channel as they were, and changes who is in the lists of c for no user
\* but u, unless it advances and leaves c with both lists empty; a Verify
\* that names no channel changes nothing.
C20_PerChannelFrame ==
  [][updates' = updates + 1
       => IF last'.idx = NoIdx
          THEN file' = file
          ELSE /\ \A d \in ChannelIdxs \ {last'.idx} :
                    /\ PendingList(file', d) = PendingList(file, d)
                    /\ CountedList(file', d) = CountedList(file, d)
               /\ \/ \A v \in Users \ {last'.user} :
                       /\ v \in PendingOf(file', last'.idx)
                            <=> v \in PendingOf(file, last'.idx)
                       /\ v \in CountedOf(file', last'.idx)
                            <=> v \in CountedOf(file, last'.idx)
                  \/ /\ last'.advanced
                     /\ PendingOf(file', last'.idx) = {}
                     /\ CountedOf(file', last'.idx) = {}]_vars

\* A user has been credited for a channel in which another user is pending,
\* another channel holding a credit.
C20_Witness ==
  /\ last.reply = "verify_counted"
  /\ PendingOf(file, last.idx) \ {last.user} # {}
  /\ \E d \in ChannelIdxs \ {last.idx} : CountedOf(file, d) # {}

====
